---- MODULE Spec2Model ----
(***************************************************************************)
(* A model of spamc/client.py: the SPAMC/1.5 client.                       *)
(*                                                                         *)
(* Text is modelled as a sequence of one-character strings, so that        *)
(* lower(), upper(), "%s" formatting, '+' and '\r\n'.join() are computed   *)
(* character by character.  Python values whose type the code inspects     *)
(* (isinstance, hasattr, truthiness) are records carrying their type.      *)
(***************************************************************************)
EXTENDS Integers, Sequences, FiniteSets, TLC

\* ------------------------------------------------------------------ bounds
\* largest max_tries a client is constructed with
MaxBudget == 2
\* the most lines a reply has after its status line
MaxLines == 3

\* ------------------------------------------------------- string constants
PROTOCOL_VERSION ==
    <<"S","P","A","M","C","/","1",".","5">>
S_ContentLengthPfx ==
    <<"C","o","n","t","e","n","t","-","l","e","n","g","t","h",":"," ">>
S_content_length ==
    <<"c","o","n","t","e","n","t","-","l","e","n","g","t","h">>
S_UserPfx ==
    <<"U","s","e","r",":"," ">>
S_CompressZlib ==
    <<"C","o","m","p","r","e","s","s",":"," ","z","l","i","b">>
S_learn ==
    <<"l","e","a","r","n">>
S_forget ==
    <<"f","o","r","g","e","t">>
S_report ==
    <<"r","e","p","o","r","t">>
S_revoke ==
    <<"r","e","v","o","k","e">>
S_SPAM ==
    <<"S","P","A","M">>
S_HAM ==
    <<"H","A","M">>
S_NOTSPAM ==
    <<"N","O","T","S","P","A","M">>
S_NOT_SPAM ==
    <<"N","O","T","_","S","P","A","M">>
S_spam ==
    <<"s","p","a","m">>
S_ham ==
    <<"h","a","m">>
S_local ==
    <<"l","o","c","a","l">>
S_remote ==
    <<"r","e","m","o","t","e">>
S_local_remote ==
    <<"l","o","c","a","l",","," ","r","e","m","o","t","e">>
S_MessageClass ==
    <<"M","e","s","s","a","g","e","-","c","l","a","s","s">>
S_Set ==
    <<"S","e","t">>
S_Remove ==
    <<"R","e","m","o","v","e">>
S_TELL ==
    <<"T","E","L","L">>
S_CHECK ==
    <<"C","H","E","C","K">>
S_PING ==
    <<"P","I","N","G">>
S_PROCESS ==
    <<"P","R","O","C","E","S","S">>
S_SYMBOLS ==
    <<"S","Y","M","B","O","L","S">>
S_REPORT ==
    <<"R","E","P","O","R","T">>
S_REPORT_IFSPAM ==
    <<"R","E","P","O","R","T","_","I","F","S","P","A","M">>
S_HEADERS ==
    <<"H","E","A","D","E","R","S">>
S_DidSet ==
    <<"D","i","d","S","e","t",":">>
S_DidRemove ==
    <<"D","i","d","R","e","m","o","v","e",":">>
S_SPAMD ==
    <<"S","P","A","M","D","/">>
S_unrecognized ==
    <<"s","p","a","m","d"," ","u","n","r","e","c","o","g","n","i","z","e","d"," ","r","e","s","p","o","n","s","e",":"," ">>
S_socket_error_pfx ==
    <<"s","o","c","k","e","t",".","e","r","r","o","r",":"," ">>
S_action_invalid ==
    <<"T","h","e"," ","a","c","t","i","o","n"," ","o","p","t","i","o","n"," ","i","s"," ","i","n","v","a","l","i","d">>
S_learnas_invalid ==
    <<"T","h","e"," ","l","e","a","r","n","a","s"," ","o","p","t","i","o","n"," ","i","s"," ","i","n","v","a","l","i","d">>
S_msg_param ==
    <<"m","s","g"," ","p","a","r","a","m"," ","s","h","o","u","l","d"," ","b","e"," ","a"," ","s","t","r","i","n","g"," ","o","r"," ","f","i","l","e"," ","h","a","n","d","l","e">>
S_SpamPfx ==
    <<"S","p","a","m",":"," ">>
S_True ==
    <<"T","r","u","e">>
S_False ==
    <<"F","a","l","s","e">>
S_Yes ==
    <<"Y","e","s">>
S_No ==
    <<"N","o">>
S_semi ==
    <<" ",";"," ">>
S_slash ==
    <<" ","/"," ">>
S_content_length_colon ==
    <<"c","o","n","t","e","n","t","-","l","e","n","g","t","h",":">>
CRLF ==
    <<"\r","\n">>

\* ------------------------------------------------------ str / int helpers
UpperCase ==
    <<"A","B","C","D","E","F","G","H","I","J","K","L","M","N","O","P","Q","R","S","T","U","V","W","X","Y","Z">>
LowerCase ==
    <<"a","b","c","d","e","f","g","h","i","j","k","l","m","n","o","p","q","r","s","t","u","v","w","x","y","z">>
Digits ==
    <<"0","1","2","3","4","5","6","7","8","9">>

\* str.lower(): every upper-case letter is replaced, everything else is kept
lower(s) ==
    [i \in DOMAIN s |->
        IF \E k \in DOMAIN UpperCase : UpperCase[k] = s[i]
        THEN LowerCase[CHOOSE k \in DOMAIN UpperCase : UpperCase[k] = s[i]]
        ELSE s[i]]

\* str.upper()
upper(s) ==
    [i \in DOMAIN s |->
        IF \E k \in DOMAIN LowerCase : LowerCase[k] = s[i]
        THEN UpperCase[CHOOSE k \in DOMAIN LowerCase : LowerCase[k] = s[i]]
        ELSE s[i]]

\* str(n) for a non-negative integer: its decimal digits
RECURSIVE str_int(_)
str_int(n) ==
    IF n < 10 THEN <<Digits[n + 1]>>
    ELSE str_int(n \div 10) \o <<Digits[(n % 10) + 1]>>

\* sep.join(lines)
RECURSIVE join(_, _)
join(sep, lines) ==
    IF lines = <<>> THEN <<>>
    ELSE IF Len(lines) = 1 THEN lines[1]
    ELSE lines[1] \o sep \o join(sep, Tail(lines))

\* s.startswith(prefix)
startswith(s, prefix) ==
    /\ Len(s) >= Len(prefix)
    /\ SubSeq(s, 1, Len(prefix)) = prefix

\* ----------------------------------------------------------- Python values
PyNone == [type |-> "NoneType", s |-> <<>>, n |-> 0]
PyStr(s) == [type |-> "str", s |-> s, n |-> 0]
PyInt(n) == [type |-> "int", s |-> <<>>, n |-> n]
\* an open file: has read, seek and fileno; n is the size os.fstat reports
PyFile(s) == [type |-> "file", s |-> s, n |-> Len(s)]
\* a StringIO-like stream: has read, seek and tell, no fileno
PyStream(s) == [type |-> "stream", s |-> s, n |-> Len(s)]

\* isinstance(v, types.StringTypes)
IsString(v) == v.type = "str"
\* hasattr(v, 'read')
HasRead(v) == v.type \in {"file", "stream"}
\* hasattr(v, 'fileno')
HasFileno(v) == v.type = "file"
\* Python truth value of v
Truthy(v) ==
    CASE v.type = "NoneType" -> FALSE
      [] v.type = "str" -> v.s # <<>>
      [] v.type = "int" -> v.n # 0
      [] OTHER -> TRUE

\* ------------------------------------------------------------- exceptions
\* errno values on Linux
EAGAIN == 11
EPIPE == 32
EBADF == 9
ECONNRESET == 104

\* an exception: its class, err[0] and str(err)
Exc(t, e, txt) == [type |-> t, errno |-> e, text |-> txt]
NoExc == Exc("none", 0, <<>>)
SpamCError(txt) == Exc("SpamCError", 0, txt)
SpamCTimeOutError(txt) == Exc("SpamCTimeOutError", 0, txt)
SpamCResponseError(txt) == Exc("SpamCResponseError", 0, txt)
ValueError(txt) == Exc("ValueError", 0, txt)

\* what the transport (spamc.conn, socket) may raise
GaiErrors == {Exc("socket.gaierror", 0 - 2, <<"n","o","n","a","m","e">>)}
TimeoutErrors == {Exc("socket.timeout", 0, <<"t","i","m","e","d"," ","o","u","t">>)}
SocketErrors ==
    { Exc("socket.error", EAGAIN, <<"a","g","a","i","n">>),
      Exc("socket.error", EPIPE, <<"p","i","p","e">>),
      Exc("socket.error", EBADF, <<"b","a","d","f">>),
      Exc("socket.error", ECONNRESET, <<"r","e","s","e","t">>),
      \* ECONNREFUSED, an errno outside the retried set
      Exc("socket.error", 111, <<"r","e","f","u","s","e","d">>) }
\* raised by something that is not the socket layer (OSError, IOError,
\* KeyboardInterrupt, ...)
OtherErrors == {Exc("OSError", 5, <<"i","o">>)}
TransportErrors == GaiErrors \cup TimeoutErrors \cup SocketErrors
AnyErrors == TransportErrors \cup OtherErrors

\* issubclass(type(e), socket.error): gaierror and timeout derive from it
IsSocketError(e) == e.type \in {"socket.error", "socket.gaierror", "socket.timeout"}

\* variant: no action is rejected
check_action_accepts_all(action) ==
    [ok |-> TRUE,
     action |-> IF IsString(action) THEN PyStr(lower(action.s)) ELSE PyStr(<<>>),
     exc |-> NoExc]

\* ---------------------------------------------------------- _check_action
\* returns the normalised action, or raises SpamCError
check_action(action) ==
    LET a == IF IsString(action) THEN PyStr(lower(action.s)) ELSE action
    IN  IF a \notin {PyStr(S_learn), PyStr(S_forget), PyStr(S_report), PyStr(S_revoke)}
        THEN [ok |-> FALSE, action |-> a, exc |-> SpamCError(S_action_invalid)]
        ELSE [ok |-> TRUE, action |-> a, exc |-> NoExc]

\* variant: report does not overwrite Set
tell_headers_report_local(action, learnas) ==
    LET mode == upper(learnas)
        h0 == (S_MessageClass :> <<>>) @@ (S_Set :> S_local)
    IN  IF action = S_learn THEN
            IF mode = S_SPAM
            THEN [ok |-> TRUE, exc |-> NoExc,
                  headers |-> [h0 EXCEPT ![S_MessageClass] = S_spam]]
            ELSE IF mode \in {S_HAM, S_NOTSPAM, S_NOT_SPAM}
            THEN [ok |-> TRUE, exc |-> NoExc,
                  headers |-> [h0 EXCEPT ![S_MessageClass] = S_ham]]
            ELSE [ok |-> FALSE, exc |-> SpamCError(S_learnas_invalid), headers |-> h0]
        ELSE IF action = S_forget THEN
            [ok |-> TRUE, exc |-> NoExc, headers |-> (S_Remove :> S_local)]
        ELSE IF action = S_report THEN
            [ok |-> TRUE, exc |-> NoExc,
             headers |-> [h0 EXCEPT ![S_MessageClass] = S_spam]]
        ELSE IF action = S_revoke THEN
            [ok |-> TRUE, exc |-> NoExc,
             headers |-> (S_Remove :> S_remote) @@ [h0 EXCEPT ![S_MessageClass] = S_ham]]
        ELSE [ok |-> TRUE, exc |-> NoExc, headers |-> h0]

\* ------------------------------------------------------------------- tell
\* the dict built by tell, as a function from key to value, or the
\* SpamCError it raises; action is the result of _check_action
tell_headers(action, learnas) ==
    LET mode == upper(learnas)
        h0 == (S_MessageClass :> <<>>) @@ (S_Set :> S_local)
    IN  IF action = S_learn THEN
            IF mode = S_SPAM
            THEN [ok |-> TRUE, exc |-> NoExc,
                  headers |-> [h0 EXCEPT ![S_MessageClass] = S_spam]]
            ELSE IF mode \in {S_HAM, S_NOTSPAM, S_NOT_SPAM}
            THEN [ok |-> TRUE, exc |-> NoExc,
                  headers |-> [h0 EXCEPT ![S_MessageClass] = S_ham]]
            ELSE [ok |-> FALSE, exc |-> SpamCError(S_learnas_invalid), headers |-> h0]
        ELSE IF action = S_forget THEN
            [ok |-> TRUE, exc |-> NoExc, headers |-> (S_Remove :> S_local)]
        ELSE IF action = S_report THEN
            [ok |-> TRUE, exc |-> NoExc,
             headers |-> [h0 EXCEPT ![S_MessageClass] = S_spam, ![S_Set] = S_local_remote]]
        ELSE IF action = S_revoke THEN
            [ok |-> TRUE, exc |-> NoExc,
             headers |-> (S_Remove :> S_remote) @@ [h0 EXCEPT ![S_MessageClass] = S_ham]]
        ELSE [ok |-> TRUE, exc |-> NoExc, headers |-> h0]

\* the orders in which `for key in d` may visit the keys of a dict d:
\* sequences of <<key, value>> without repetition covering the keys
Items(d) ==
    { s \in [1..Cardinality(DOMAIN d) -> {<<k, d[k]>> : k \in DOMAIN d}] :
        \A i, j \in DOMAIN s : i # j => s[i] # s[j] }

\* an optional value (None or a value)
None == [some |-> FALSE, v |-> <<>>]
Some(x) == [some |-> TRUE, v |-> x]

\* variant: a Content-length among the extra headers is not skipped
RECURSIVE extra_lines_unfiltered(_)
extra_lines_unfiltered(items) ==
    IF items = <<>> THEN <<>>
    ELSE <<items[1][1] \o <<":", " ">> \o items[1][2]>> \o extra_lines_unfiltered(Tail(items))

\* ------------------------------------------------------------ get_headers
\* the lines get_headers collects, before they are joined
RECURSIVE extra_lines(_)
extra_lines(items) ==
    IF items = <<>> THEN <<>>
    ELSE LET key == items[1][1]
             val == items[1][2]
         IN  (IF lower(key) # S_content_length
              THEN <<key \o <<":", " ">> \o val>>
              ELSE <<>>) \o extra_lines(Tail(items))

header_lines(u, gz, c, length, extra) ==
    LET cmd_header == c \o <<" ">> \o PROTOCOL_VERSION
        len_header == S_ContentLengthPfx \o length
    IN  <<cmd_header, len_header>>
        \o (IF u.some /\ u.v # <<>> THEN <<S_UserPfx \o u.v>> ELSE <<>>)
        \o (IF gz THEN <<S_CompressZlib>> ELSE <<>>)
        \o (IF extra.some THEN extra_lines(extra.v) ELSE <<>>)
        \o << <<>>, <<>> >>

get_headers(u, gz, c, length, extra) ==
    join(CRLF, header_lines(u, gz, c, length, extra))

\* --------------------------------------------------------- zlib.compress
\* A zlib stream: 2 header bytes, the deflate payload, 4 checksum bytes.
\* For the short bodies of the model the payload is one final block of
\* literals, two bytes longer than its input.
compress(data) ==
    <<"x78", "x9c">> \o <<"blk">> \o data \o <<"eob">> \o <<"ad3", "ad2", "ad1", "ad0">>

\* ----------------------------------------------------------- get_response
\* data.split('\r\n')
split_crlf(s, cur) ==
    LET cuts == {i \in 1..(Len(s) - 1) : s[i] = "\r" /\ s[i + 1] = "\n"}
        cut(k) == CHOOSE i \in cuts : Cardinality({j \in cuts : j < i}) = k - 1
        n == Cardinality(cuts)
    IN  [k \in 1..(n + 1) |->
            (IF k = 1 THEN cur ELSE <<>>)
            \o SubSeq(s, IF k = 1 THEN 1 ELSE cut(k - 1) + 2,
                         IF k = n + 1 THEN Len(s) ELSE cut(k) - 1)]

\* int(s) for a string of decimal digits
RECURSIVE int_str(_)
int_str(s) ==
    IF s = <<>> THEN 0
    ELSE 10 * int_str(SubSeq(s, 1, Len(s) - 1))
         + ((CHOOSE k \in DOMAIN Digits : Digits[k] = s[Len(s)]) - 1)

IsDigits(s) == s # <<>> /\ \A i \in DOMAIN s : \E k \in DOMAIN Digits : Digits[k] = s[i]

\* position of the first space of s at or after index i, 0 if there is none
FirstSpace(s, i) ==
    IF \E k \in i..Len(s) : s[k] = " "
    THEN CHOOSE k \in i..Len(s) : s[k] = " " /\ \A j \in i..(k - 1) : s[j] # " "
    ELSE 0

\* RESPONSE_RE.match(line): "SPAMD/<version> <code> <message>"
RESPONSE_RE_match(line) ==
    LET p1 == FirstSpace(line, 1)
        p2 == IF p1 = 0 THEN 0 ELSE FirstSpace(line, p1 + 1)
        nomatch == [matched |-> FALSE, code |-> <<>>, message |-> <<>>]
    IN  IF ~startswith(line, S_SPAMD) \/ p1 = 0 \/ p2 = 0 THEN nomatch
        ELSE LET version == SubSeq(line, Len(S_SPAMD) + 1, p1 - 1)
                 code == SubSeq(line, p1 + 1, p2 - 1)
             IN  IF version # <<>>
                    /\ (\A i \in DOMAIN version :
                          version[i] = "." \/ IsDigits(<<version[i]>>))
                    /\ IsDigits(code)
                 THEN [matched |-> TRUE, code |-> code,
                       message |-> SubSeq(line, p2 + 1, Len(line))]
                 ELSE nomatch

\* not line.strip()
IsBlank(line) == \A i \in DOMAIN line : line[i] \in {" ", "\t", "\r", "\n"}

\* s.split(ch) for a one-character separator
split_char(s, ch, cur) ==
    LET cuts == {i \in 1..Len(s) : s[i] = ch}
        cut(k) == CHOOSE i \in cuts : Cardinality({j \in cuts : j < i}) = k - 1
        n == Cardinality(cuts)
    IN  [k \in 1..(n + 1) |->
            (IF k = 1 THEN cur ELSE <<>>)
            \o SubSeq(s, IF k = 1 THEN 1 ELSE cut(k - 1) + 1,
                         IF k = n + 1 THEN Len(s) ELSE cut(k) - 1)]

SpaceChars == {" ", "\t", "\r", "\n"}
DigitChars == {Digits[k] : k \in DOMAIN Digits}
NameChars == {"_"} \cup DigitChars \cup {UpperCase[k] : k \in DOMAIN UpperCase}

\* the first index at or after i whose character is not in chars, Len(s) + 1
\* if there is none
Span(s, i, chars) ==
    IF i > Len(s) THEN Len(s) + 1
    ELSE CHOOSE j \in i..(Len(s) + 1) :
            /\ \A k \in i..(j - 1) : s[k] \in chars
            /\ j = Len(s) + 1 \/ s[j] \notin chars

\* a decimal number: optional minus, digits, a point, digits
IsNumber(s) ==
    LET b == IF s # <<>> /\ s[1] = "-" THEN 2 ELSE 1
        p == Span(s, b, DigitChars)
    IN  /\ p > b
        /\ p < Len(s)
        /\ s[p] = "."
        /\ Span(s, p + 1, DigitChars) = Len(s) + 1

\* float(s) for a decimal number: <<n, k>> stands for n / 10^k, k minimal
RECURSIVE strip_zeros(_)
strip_zeros(s) ==
    IF s # <<>> /\ s[Len(s)] = "0" THEN strip_zeros(SubSeq(s, 1, Len(s) - 1)) ELSE s

float_str(s) ==
    LET neg == s[1] = "-"
        b == IF neg THEN 2 ELSE 1
        p == Span(s, b, DigitChars)
        frac == strip_zeros(SubSeq(s, p + 1, Len(s)))
        n == int_str(SubSeq(s, b, p - 1)) * (10 ^ Len(frac)) + int_str(frac)
    IN  <<IF neg THEN 0 - n ELSE n, Len(frac)>>

\* SPAM_RE.match(line): "Spam: <True|False|Yes|No> ; <score> / <threshold>"
SPAM_RE_match(line) ==
    LET nomatch == [matched |-> FALSE, isspam |-> <<>>, score |-> <<>>, basescore |-> <<>>]
        p1 == FirstSpace(line, Len(S_SpamPfx) + 1)
        p2 == IF p1 = 0 THEN 0 ELSE FirstSpace(line, p1 + Len(S_semi))
    IN  IF ~startswith(line, S_SpamPfx) \/ p1 = 0 \/ p2 = 0 THEN nomatch
        ELSE LET token == SubSeq(line, Len(S_SpamPfx) + 1, p1 - 1)
                 score == SubSeq(line, p1 + Len(S_semi), p2 - 1)
                 base == SubSeq(line, p2 + Len(S_slash), Len(line))
             IN  IF /\ token \in {S_True, S_False, S_Yes, S_No}
                    /\ SubSeq(line, p1, p1 + Len(S_semi) - 1) = S_semi
                    /\ SubSeq(line, p2, p2 + Len(S_slash) - 1) = S_slash
                    /\ IsNumber(score)
                    /\ IsNumber(base)
                 THEN [matched |-> TRUE, isspam |-> token, score |-> score, basescore |-> base]
                 ELSE nomatch

\* SPACE_RE.sub(" ", s): every run of whitespace becomes one space
RECURSIVE SPACE_RE_sub(_)
SPACE_RE_sub(s) ==
    IF s = <<>> THEN <<>>
    ELSE IF s[1] \in SpaceChars
         THEN <<" ">> \o SPACE_RE_sub(SubSeq(s, Span(s, 1, SpaceChars), Len(s)))
         ELSE <<s[1]>> \o SPACE_RE_sub(Tail(s))

\* one RULE_RE match in a piece of a line: sign, magnitude, rule name, description
RULE_RE_entry(seg) ==
    LET a == Span(seg, 1, SpaceChars)
        neg == a <= Len(seg) /\ seg[a] = "-"
        b == IF neg THEN a + 1 ELSE a
        p == Span(seg, b, DigitChars)
        q == Span(seg, p + 1, DigitChars)
        e == Span(seg, q, SpaceChars)
        f == Span(seg, e, NameChars)
        g == Span(seg, f, SpaceChars)
    IN  IF /\ p > b
           /\ p <= Len(seg)
           /\ seg[p] = "."
           /\ q > p + 1
           /\ e > q
           /\ f > e
           /\ g > f
           /\ g <= Len(seg)
        THEN << <<IF neg THEN <<"-">> ELSE <<" ">>, SubSeq(seg, b, q - 1),
                  SubSeq(seg, e, f - 1), SubSeq(seg, g, Len(seg))>> >>
        ELSE <<>>

\* RULE_RE.findall(line): the matches in the pieces of the line, in order; a
\* piece that starts no match continues the description of the match before it
RECURSIVE rule_entries(_, _)
rule_entries(segs, acc) ==
    IF segs = <<>> THEN acc
    ELSE LET e == RULE_RE_entry(segs[1])
         IN  IF e # <<>> THEN rule_entries(Tail(segs), acc \o e)
             ELSE IF acc = <<>> THEN rule_entries(Tail(segs), acc)
             ELSE rule_entries(Tail(segs),
                     [acc EXCEPT ![Len(acc)][4] = @ \o <<"\n">> \o segs[1]])

RULE_RE_findall(line) == rule_entries(split_char(line, "\n", <<>>), <<>>)

\* PART_RE.findall(line): the non-empty pieces between commas
PART_RE_findall(line) ==
    SelectSeq(split_char(line, ",", <<>>), LAMBDA piece : piece # <<>>)

\* s.strip()
strip(s) ==
    LET a == Span(s, 1, SpaceChars)
    IN  IF a > Len(s) THEN <<>>
        ELSE SubSeq(s, a, CHOOSE j \in a..Len(s) :
                             /\ s[j] \notin SpaceChars
                             /\ \A k \in (j + 1)..Len(s) : s[k] \in SpaceChars)

\* the dict appended to resp_dict['report'] for one RULE_RE match
report_entry(part) ==
    [score |-> strip(part[1] \o part[2]), name |-> part[3],
     description |-> SPACE_RE_sub(part[4])]

\* resp_dict as get_response initialises it
resp_dict0(c) ==
    [code |-> 0, message |-> <<>>, isspam |-> FALSE,
     score |-> <<0, 0>>, basescore |-> <<0, 0>>,
     report |-> <<>>, symbols |-> <<>>,
     tell |-> (c = S_TELL), didset |-> FALSE, didremove |-> FALSE]

\* variant: a spam-status line counts only while none has been seen
scan_line_first_spam_wins(c, d, line) ==
    IF IsBlank(line) THEN d
    ELSE LET sm == SPAM_RE_match(line)
             parts == IF ~sm.matched /\ c = S_SYMBOLS THEN PART_RE_findall(line) ELSE <<>>
             match == sm.matched \/ parts # <<>>
             rules == IF ~match /\ c # S_PROCESS THEN RULE_RE_findall(line) ELSE <<>>
         IN  [d EXCEPT
                !.score = IF sm.matched /\ d.score = <<0, 0>> THEN float_str(sm.score) ELSE @,
                !.basescore = IF sm.matched /\ d.basescore = <<0, 0>>
                              THEN float_str(sm.basescore) ELSE @,
                !.isspam = IF sm.matched /\ d.score = <<0, 0>>
                           THEN sm.isspam \in {S_True, S_Yes} ELSE @,
                !.symbols = @ \o parts,
                !.report = IF rules # <<>>
                           THEN [i \in DOMAIN rules |-> report_entry(rules[i])] ELSE @,
                !.didset = @ \/ startswith(line, S_DidSet),
                !.didremove = @ \/ startswith(line, S_DidRemove)]

\* the body of the loop for one line after the status line; match is the
\* variable of that name: the SPAM_RE match, or for SYMBOLS the PART_RE matches
scan_line(c, d, line) ==
    IF IsBlank(line) THEN d
    ELSE LET sm == SPAM_RE_match(line)
             parts == IF ~sm.matched /\ c = S_SYMBOLS THEN PART_RE_findall(line) ELSE <<>>
             match == sm.matched \/ parts # <<>>
             rules == IF ~match /\ c # S_PROCESS THEN RULE_RE_findall(line) ELSE <<>>
         IN  [d EXCEPT
                !.score = IF sm.matched THEN float_str(sm.score) ELSE @,
                !.basescore = IF sm.matched THEN float_str(sm.basescore) ELSE @,
                !.isspam = IF sm.matched THEN sm.isspam \in {S_True, S_Yes} ELSE @,
                !.symbols = @ \o parts,
                !.report = IF rules # <<>>
                           THEN [i \in DOMAIN rules |-> report_entry(rules[i])] ELSE @,
                !.didset = @ \/ startswith(line, S_DidSet),
                !.didremove = @ \/ startswith(line, S_DidRemove)]

RECURSIVE scan_lines(_, _, _)
scan_lines(c, d, lines) ==
    IF lines = <<>> THEN d
    ELSE scan_lines(c, scan_line(c, d, lines[1]), Tail(lines))

\* variant: an unrecognized status line leaves the defaults and parsing goes on
parse_response_lenient(c, data) ==
    LET lines == split_crlf(data, <<>>)
        match == RESPONSE_RE_match(lines[1])
    IN  [ok |-> TRUE, exc |-> NoExc,
         resp |-> scan_lines(c,
                     IF match.matched
                     THEN [resp_dict0(c) EXCEPT !.code = int_str(match.code),
                                                !.message = match.message]
                     ELSE resp_dict0(c),
                     Tail(lines))]

\* the loop over the lines of the data read from the connection: the response,
\* or the SpamCResponseError raised on the status line
parse_response(c, data) ==
    LET lines == split_crlf(data, <<>>)
        match == RESPONSE_RE_match(lines[1])
    IN  IF ~match.matched
        THEN [ok |-> FALSE, exc |-> SpamCResponseError(S_unrecognized \o data),
              resp |-> resp_dict0(c)]
        ELSE [ok |-> TRUE, exc |-> NoExc,
              resp |-> scan_lines(c,
                          [resp_dict0(c) EXCEPT !.code = int_str(match.code),
                                                !.message = match.message],
                          Tail(lines))]

\* raw_symbols_list: the lines kept verbatim for SYMBOLS
raw_symbols_list(lines) ==
    SelectSeq(lines, LAMBDA line :
        /\ ~IsBlank(line)
        /\ ~SPAM_RE_match(line).matched
        /\ ~startswith(lower(line), S_content_length_colon))

\* ''.join(lines[4:])
RECURSIVE concat(_)
concat(ss) == IF ss = <<>> THEN <<>> ELSE ss[1] \o concat(Tail(ss))

\* get_response: the loop, then what is done to the result for SYMBOLS in raw
\* mode and for PROCESS
get_response(c, data, raw) ==
    LET r == parse_response(c, data)
        lines == split_crlf(data, <<>>)
    IN  IF ~r.ok THEN r
        ELSE [r EXCEPT
                !.resp.symbols =
                    IF c = S_SYMBOLS /\ raw
                    THEN <<join(<<"\n">>, raw_symbols_list(Tail(lines)))>> ELSE @,
                !.resp.message =
                    IF c = S_PROCESS
                    THEN concat(SubSeq(lines, 5, Len(lines))) \o CRLF ELSE @]

\* ------------------------------------------------------------------ state
VARIABLES
    user,           \* SpamC.user
    gzip,           \* SpamC.gzip
    max_tries,      \* SpamC.max_tries
    wait_tries,     \* SpamC.wait_tries, in tenths of a second
    call,           \* the facade method the caller invoked, with its arguments
    pc,             \* position of the call
    cmd,            \* perform: cmd
    msg,            \* perform: msg (reassigned by perform)
    extra_headers,  \* perform: extra_headers, in the dict's iteration order
    raw_symbols,    \* perform: raw_symbols
    tries,          \* perform: tries
    conn,           \* perform: conn; 0 is None, otherwise the connection's id
    msg_length,     \* perform: msg_length
    headers,        \* perform: headers
    log,            \* what was done to the connections and the backend, in order
    exc,            \* the exception caught in the current turn of perform's loop
    outcome         \* what the caller got: nothing yet, a response or an error

vars == <<user, gzip, max_tries, wait_tries, call, pc, cmd, msg, extra_headers,
          raw_symbols, tries, conn, msg_length, headers, log, exc, outcome>>
config == <<user, gzip, max_tries, wait_tries>>
args == <<cmd, msg, extra_headers, raw_symbols>>

\* default of wait_tries (0.3), in tenths
DefaultWaitTries == 3

Users == {None, Some(<<>>), Some(<<"b","o","b">>)}
Bodies ==
    { PyStr(<<>>), PyStr(<<"H","i">>), PyFile(<<"H","i">>),
      PyStream(<<"H","i">>), PyInt(5), PyNone }
TextBodies == {PyStr(<<"H","i">>)}
\* what the daemon may answer
Replies ==
    { <<"S","P","A","M","D","/","1",".","1"," ","0"," ","E","X","_","O","K","\r","\n","\r","\n">>,
      <<"S","P","A","M","D","/","1",".","1"," ","0"," ","E","X","_","O","K","\r","\n",
        "D","i","d","S","e","t",":"," ","l","o","c","a","l","\r","\n","\r","\n">>,
      <<"S","P","A","M","D","/","1",".","1"," ","7","6"," ","B","a","d","\r","\n">>,
      <<"o","o","p","s","\r","\n">>,
      <<>> }

Ev(op, c, data, arg) == [op |-> op, conn |-> c, data |-> data, arg |-> arg]
NoResp == resp_dict0(<<>>)
Pending == [kind |-> "none", exc |-> NoExc, resp |-> NoResp]
Returned(r) == [kind |-> "return", exc |-> NoExc, resp |-> r]
Raised(e) == [kind |-> "raise", exc |-> e, resp |-> NoResp]
NoCall == [op |-> "none", action |-> PyNone, learnas |-> PyNone]

\* no call made yet
InitCall ==
    /\ call = NoCall
    /\ pc = "idle"
    /\ cmd = <<>>
    /\ msg = PyNone
    /\ extra_headers = None
    /\ raw_symbols = FALSE
    /\ tries = 0
    /\ conn = 0
    /\ msg_length = <<>>
    /\ headers = <<>>
    /\ log = <<>>
    /\ exc = NoExc
    /\ outcome = Pending

\* a client as SpamC.__init__ leaves it
Init ==
    /\ user = None
    /\ gzip \in BOOLEAN
    /\ max_tries \in 0..MaxBudget
    /\ wait_tries = DefaultWaitTries
    /\ InitCall

\* ---------------------------------------------------------------- perform
\* entry of perform: bind the arguments, tries = 0
perform(c, m, extra, raw) ==
    /\ cmd' = c
    /\ msg' = m
    /\ extra_headers' = extra
    /\ raw_symbols' = raw
    /\ tries' = 0
    /\ pc' = "connect"
    /\ UNCHANGED <<config, conn, msg_length, headers, log, exc, outcome>>

\* an error raised by a facade method before perform is entered
fail_call(e) ==
    /\ outcome' = Raised(e)
    /\ pc' = "done"
    /\ UNCHANGED <<config, args, tries, conn, msg_length, headers, log, exc>>

\* variant: ECONNREFUSED is retried too
errors_with_refused == {EAGAIN, EPIPE, EBADF, ECONNRESET, 111}

\* the errno values perform retries on
errors == {EAGAIN, EPIPE, EBADF, ECONNRESET}

\* except socket.gaierror: release, raise SpamCError(str(err))
except_gaierror(e, c, lg) ==
    /\ log' = IF c # 0 THEN Append(lg, Ev("release", c, <<>>, 0)) ELSE lg
    /\ outcome' = Raised(SpamCError(e.text))
    /\ pc' = "done"
    /\ exc' = e
    /\ UNCHANGED tries

\* variant: the timeout clause closes the connection
except_timeout_closes(e, c, lg) ==
    /\ log' = IF c # 0 THEN Append(lg, Ev("close", c, <<>>, 0)) ELSE lg
    /\ outcome' = Raised(SpamCTimeOutError(e.text))
    /\ pc' = "done"
    /\ exc' = e
    /\ UNCHANGED tries

\* except socket.timeout: release, raise SpamCTimeOutError(str(err))
except_timeout(e, c, lg) ==
    /\ log' = IF c # 0 THEN Append(lg, Ev("release", c, <<>>, 0)) ELSE lg
    /\ outcome' = Raised(SpamCTimeOutError(e.text))
    /\ pc' = "done"
    /\ exc' = e
    /\ UNCHANGED tries

\* variant: the budget is not looked at
gives_up_ignores_budget(e, t, m) == e.errno \notin errors

\* the condition under which except socket.error raises instead of retrying
gives_up(e, t, m) == e.errno \notin errors \/ t >= m

\* variant: the connection of a failed attempt goes back to the pool
except_socket_error_releases(e, c, lg) ==
    /\ log' = IF c # 0 THEN Append(lg, Ev("release", c, <<>>, 0)) ELSE lg
    /\ IF gives_up(e, tries, max_tries)
       THEN /\ outcome' = Raised(SpamCError(S_socket_error_pfx \o e.text))
            /\ pc' = "done"
            /\ exc' = e
            /\ UNCHANGED tries
       ELSE /\ tries' = tries + 1
            /\ pc' = "sleep"
            /\ exc' = e
            /\ UNCHANGED outcome

\* variant: the connection of a failed attempt is left open
except_socket_error_leaks(e, c, lg) ==
    /\ log' = lg
    /\ IF gives_up(e, tries, max_tries)
       THEN /\ outcome' = Raised(SpamCError(S_socket_error_pfx \o e.text))
            /\ pc' = "done"
            /\ exc' = e
            /\ UNCHANGED tries
       ELSE /\ tries' = tries + 1
            /\ pc' = "sleep"
            /\ exc' = e
            /\ UNCHANGED outcome

\* variant: the retry starts over without the sleep
except_socket_error_no_sleep(e, c, lg) ==
    /\ log' = IF c # 0 THEN Append(lg, Ev("close", c, <<>>, 0)) ELSE lg
    /\ IF gives_up(e, tries, max_tries)
       THEN /\ outcome' = Raised(SpamCError(S_socket_error_pfx \o e.text))
            /\ pc' = "done"
            /\ exc' = e
            /\ UNCHANGED tries
       ELSE /\ tries' = tries + 1
            /\ pc' = "connect"
            /\ exc' = e
            /\ UNCHANGED outcome

\* except socket.error: close, then raise SpamCError or fall through to
\* tries += 1 and the sleep
except_socket_error(e, c, lg) ==
    /\ log' = IF c # 0 THEN Append(lg, Ev("close", c, <<>>, 0)) ELSE lg
    /\ IF gives_up(e, tries, max_tries)
       THEN /\ outcome' = Raised(SpamCError(S_socket_error_pfx \o e.text))
            /\ pc' = "done"
            /\ exc' = e
            /\ UNCHANGED tries
       ELSE /\ tries' = tries + 1
            /\ pc' = "sleep"
            /\ exc' = e
            /\ UNCHANGED outcome

\* variant: the unexpected error is wrapped
except_BaseException_wraps(e, c, lg) ==
    /\ log' = IF c # 0 THEN Append(lg, Ev("release", c, <<>>, 0)) ELSE lg
    /\ outcome' = Raised(SpamCError(e.text))
    /\ pc' = "done"
    /\ exc' = e
    /\ UNCHANGED tries

\* except BaseException: release, re-raise
except_BaseException(e, c, lg) ==
    /\ log' = IF c # 0 THEN Append(lg, Ev("release", c, <<>>, 0)) ELSE lg
    /\ outcome' = Raised(e)
    /\ pc' = "done"
    /\ exc' = e
    /\ UNCHANGED tries

\* the except clauses of perform, tried in their order, for exception e
\* raised in the try block while conn is c and the log is lg
handle(e, c, lg) ==
    IF e.type = "socket.gaierror" THEN except_gaierror(e, c, lg)
       ELSE IF e.type = "socket.timeout" THEN except_timeout(e, c, lg)
       ELSE IF IsSocketError(e) THEN except_socket_error(e, c, lg)
       ELSE except_BaseException(e, c, lg)

\* number of connections acquired so far
Acquired == Cardinality({i \in DOMAIN log : log[i].op = "acquire"})

\* conn = None; conn = self.get_connection()
get_connection ==
    /\ pc = "connect"
    /\ \/ /\ conn' = Acquired + 1
          /\ log' = Append(log, Ev("acquire", Acquired + 1, <<>>, 0))
          /\ pc' = "length"
          /\ UNCHANGED <<tries, exc, outcome>>
       \/ /\ UNCHANGED conn
          /\ \E e \in AnyErrors : handle(e, 0, Append(log, Ev("connect_failed", 0, <<>>, 0)))
    /\ UNCHANGED <<config, call, args, msg_length, headers>>

\* variant: the file size gets the 2 of the trailing CRLF as well
body_length_fd_plus2(m) ==
    IF HasRead(m) /\ HasFileno(m) THEN m.n + 2
    ELSE IF HasRead(m) THEN Len(m.s) + 2
    ELSE IF Truthy(m) THEN Len(m.s) + 2
    ELSE 2

\* the msg_length perform computes, as an integer
body_length(m) ==
    IF HasRead(m) /\ HasFileno(m) THEN m.n
    ELSE IF HasRead(m) THEN Len(m.s) + 2
    ELSE IF Truthy(m) THEN Len(m.s) + 2
    ELSE 2

\* len(msg) raises TypeError
NoLen(m) == ~HasRead(m) /\ Truthy(m) /\ ~IsString(m)

\* the computation of msg_length and of the headers
prepare ==
    /\ pc = "length"
    /\ \/ /\ ~NoLen(msg)
          /\ msg_length' = str_int(body_length(msg))
          /\ headers' = get_headers(user, gzip, cmd, msg_length', extra_headers)
          /\ pc' = "send"
          /\ UNCHANGED <<tries, log, exc, outcome>>
       \/ /\ NoLen(msg)
          /\ handle(ValueError(S_msg_param), conn, Append(log, Ev("close", conn, <<>>, 0)))
          /\ UNCHANGED <<msg_length, headers>>
       \/ /\ HasRead(msg)
          /\ \E e \in OtherErrors : handle(e, conn, log)
          /\ UNCHANGED <<msg_length, headers>>
    /\ UNCHANGED <<config, call, args, conn>>

\* the value msg is rebound to before an in-memory body is sent
wire_body(gz, m) ==
    IF gz /\ Truthy(m) THEN PyStr(compress(m.s \o CRLF)) ELSE PyStr(m.s \o CRLF)

\* conn.send(headers + msg), or conn.send(headers) and conn.sendfile(msg, ...)
send_request ==
    /\ pc = "send"
    /\ IF IsString(msg)
       THEN /\ msg' = wire_body(gzip, msg)
            /\ \/ /\ log' = Append(log, Ev("send", conn, headers \o msg'.s, 0))
                  /\ pc' = "term"
                  /\ UNCHANGED <<tries, exc, outcome>>
               \/ \E e \in AnyErrors : handle(e, conn, log)
       ELSE /\ UNCHANGED msg
            /\ \/ /\ log' = IF HasRead(msg)
                            THEN log \o <<Ev("send", conn, headers, 0),
                                          Ev("sendfile", conn, msg.s, IF gzip THEN 1 ELSE 0)>>
                            ELSE Append(log, Ev("send", conn, headers, 0))
                  /\ pc' = "term"
                  /\ UNCHANGED <<tries, exc, outcome>>
               \/ \E e \in AnyErrors : handle(e, conn, log)
               \/ /\ HasRead(msg)
                  /\ \E e \in AnyErrors :
                        handle(e, conn, Append(log, Ev("send", conn, headers, 0)))
    /\ UNCHANGED <<config, call, cmd, extra_headers, raw_symbols, conn, msg_length, headers>>

\* conn.send('\r\n')
send_terminator ==
    /\ pc = "term"
    /\ \/ /\ log' = Append(log, Ev("send", conn, CRLF, 0))
          /\ pc' = "shutdown"
          /\ UNCHANGED <<tries, exc, outcome>>
       \/ \E e \in AnyErrors : handle(e, conn, log)
    /\ UNCHANGED <<config, call, args, conn, msg_length, headers>>

\* variant: an error of the half-close is handled like any other of the attempt
half_close_raises ==
    /\ pc = "shutdown"
    /\ \/ /\ log' = Append(log, Ev("shutdown", conn, <<>>, 0))
          /\ pc' = "read"
          /\ UNCHANGED <<tries, exc, outcome>>
       \/ \E e \in AnyErrors :
            handle(e, conn, IF IsSocketError(e)
                            THEN Append(log, Ev("shutdown_failed", conn, <<>>, 0))
                            ELSE log)
    /\ UNCHANGED <<config, call, args, conn, msg_length, headers>>

\* conn.socket().shutdown(socket.SHUT_WR): a socket.error is passed over, any
\* other error takes the except clauses of perform
half_close ==
    /\ pc = "shutdown"
    /\ \/ /\ log' = Append(log, Ev("shutdown", conn, <<>>, 0))
          /\ pc' = "read"
          /\ UNCHANGED <<tries, exc, outcome>>
       \/ \E e \in AnyErrors :
            IF IsSocketError(e)
            THEN /\ log' = Append(log, Ev("shutdown_failed", conn, <<>>, 0))
                 /\ pc' = "read"
                 /\ UNCHANGED <<tries, exc, outcome>>
            ELSE handle(e, conn, log)
    /\ UNCHANGED <<config, call, args, conn, msg_length, headers>>

\* return get_response(cmd, conn, raw_symbols), the daemon answering with one
\* of the replies R
read_from(R) ==
    /\ pc = "read"
    /\ \/ \E data \in R :
            LET r == get_response(cmd, data, raw_symbols)
                lg == Append(log, Ev("recv", conn, data, 0))
            IN  IF r.ok
                THEN /\ outcome' = Returned(r.resp)
                     /\ pc' = "done"
                     /\ log' = lg
                     /\ UNCHANGED <<tries, exc>>
                ELSE handle(r.exc, conn, lg)
       \/ \E e \in AnyErrors :
            handle(e, conn, Append(log, Ev("recv_failed", conn, <<>>, 0)))
    /\ UNCHANGED <<config, call, args, conn, msg_length, headers>>

read_response == read_from(Replies)

\* self.backend_mod.sleep(self.wait_tries), then the next turn of the loop
sleep ==
    /\ pc = "sleep"
    /\ log' = Append(log, Ev("sleep", 0, <<>>, wait_tries))
    /\ pc' = "connect"
    /\ conn' = 0
    /\ exc' = NoExc
    /\ UNCHANGED <<config, call, args, tries, msg_length, headers, outcome>>

\* ----------------------------------------------------------------- facade
Called(op, action, learnas) ==
    call' = [op |-> op, action |-> action, learnas |-> learnas]

check ==
    /\ pc = "idle"
    /\ \E m \in Bodies : perform(S_CHECK, m, None, FALSE)
    /\ Called("check", PyNone, PyNone)

symbols ==
    /\ pc = "idle"
    /\ \E m \in TextBodies : perform(S_SYMBOLS, m, None, FALSE)
    /\ Called("symbols", PyNone, PyNone)

symbols_raw ==
    /\ pc = "idle"
    /\ \E m \in TextBodies : perform(S_SYMBOLS, m, None, TRUE)
    /\ Called("symbols_raw", PyNone, PyNone)

report ==
    /\ pc = "idle"
    /\ \E m \in TextBodies : perform(S_REPORT, m, None, FALSE)
    /\ Called("report", PyNone, PyNone)

report_ifspam ==
    /\ pc = "idle"
    /\ \E m \in TextBodies : perform(S_REPORT_IFSPAM, m, None, FALSE)
    /\ Called("report_ifspam", PyNone, PyNone)

ping ==
    /\ pc = "idle"
    /\ perform(S_PING, PyStr(<<>>), None, FALSE)
    /\ Called("ping", PyNone, PyNone)

process ==
    /\ pc = "idle"
    /\ \E m \in TextBodies : perform(S_PROCESS, m, None, FALSE)
    /\ Called("process", PyNone, PyNone)

headers_op ==
    /\ pc = "idle"
    /\ \E m \in TextBodies : perform(S_HEADERS, m, None, FALSE)
    /\ Called("headers", PyNone, PyNone)

\* the body of tell
do_tell(m, action, learnas) ==
    LET chk == check_action(action)
    IN  IF ~chk.ok THEN fail_call(chk.exc)
        ELSE LET th == tell_headers(chk.action.s, learnas.s)
             IN  IF ~th.ok THEN fail_call(th.exc)
                 ELSE \E items \in Items(th.headers) :
                        perform(S_TELL, m, Some(items), FALSE)

Actions ==
    { PyStr(S_learn), PyStr(upper(S_learn)), PyStr(<<"F","o","r","g","e","t">>),
      PyStr(S_report), PyStr(S_revoke), PyStr(<<"d","e","l","e","t","e">>),
      PyStr(<<>>), PyNone }
LearnAs ==
    { PyStr(<<>>), PyStr(S_spam), PyStr(S_SPAM), PyStr(<<"H","a","m">>),
      PyStr(lower(S_NOTSPAM)), PyStr(lower(S_NOT_SPAM)), PyStr(<<"j","u","n","k">>),
      PyStr(S_forget) }

tell ==
    /\ pc = "idle"
    /\ \E m \in TextBodies, action \in Actions, learnas \in LearnAs :
          /\ do_tell(m, action, learnas)
          /\ Called("tell", action, learnas)

learn ==
    /\ pc = "idle"
    /\ \E m \in TextBodies, learnas \in LearnAs \cup {PyNone} :
          /\ IF ~IsString(learnas) THEN fail_call(SpamCError(S_learnas_invalid))
             ELSE IF lower(learnas.s) = S_forget
                  THEN do_tell(m, PyStr(S_forget), PyStr(<<>>))
                  ELSE do_tell(m, PyStr(S_learn), learnas)
          /\ Called("learn", PyNone, learnas)

revoke ==
    /\ pc = "idle"
    /\ \E m \in TextBodies : do_tell(m, PyStr(S_revoke), PyStr(<<>>))
    /\ Called("revoke", PyNone, PyNone)

\* a direct call of perform, with extra headers of the caller's choice
ExtraKeys ==
    { <<"X">>, S_Set,
      <<"C","o","n","t","e","n","t","-","l","e","n","g","t","h">>,
      <<"C","O","N","T","E","N","T","-","L","E","N","G","T","H">>,
      S_content_length }
ExtraDicts ==
    UNION { [ks -> {<<"1">>}] : ks \in {s \in SUBSET ExtraKeys : Cardinality(s) <= 2} }

perform_op ==
    /\ pc = "idle"
    /\ \E c \in {S_CHECK, S_TELL}, m \in {PyStr(<<>>), PyStr(<<"H","i">>)}, d \in ExtraDicts :
          \/ \E items \in Items(d) : perform(c, m, Some(items), FALSE)
          \/ perform(c, m, None, FALSE)
    /\ Called("perform", PyNone, PyNone)

\* the steps of perform
Engine ==
    \/ get_connection
    \/ prepare
    \/ send_request
    \/ send_terminator
    \/ half_close
    \/ read_response
    \/ sleep

\* the exchange: check and ping on any kind of body, and perform
Next ==
    \/ check
    \/ ping
    \/ Engine

Spec == Init /\ [][Next]_vars

\* the same exchange when every transport operation returns or raises and the
\* backend sleep returns: a step of perform that can be taken is taken
FairSpec == Spec /\ WF_vars(Engine)

\* the other commands of the facade, on a client that retries once at most
InitFacade ==
    /\ user = None
    /\ gzip = FALSE
    /\ max_tries \in {0, 1}
    /\ wait_tries \in {0, DefaultWaitTries}
    /\ InitCall

NextFacade ==
    \/ symbols
    \/ symbols_raw
    \/ report
    \/ report_ifspam
    \/ process
    \/ headers_op
    \/ tell
    \/ learn
    \/ revoke
    \/ Engine

SpecFacade == InitFacade /\ [][NextFacade]_vars

\* the request header: perform up to the point where the headers are built
InitHeaders ==
    /\ user \in Users
    /\ gzip \in BOOLEAN
    /\ max_tries = 0
    /\ wait_tries = DefaultWaitTries
    /\ InitCall

NextHeaders ==
    \/ perform_op
    \/ get_connection
    \/ prepare

SpecHeaders == InitHeaders /\ [][NextHeaders]_vars

\* the reply parser on its own: one exchange without retries, the daemon
\* answering with a status line and up to MaxLines further lines
St_ok ==
    <<"S","P","A","M","D","/","1",".","1"," ","0"," ","E","X","_","O","K">>
St_bad ==
    <<"S","P","A","M","D","/","1",".","5"," ","7","6"," ","B","a","d">>
St_garbled ==
    <<"S","P","A","M","D"," ","0"," ","E","X","_","O","K">>
L_blank ==
    <<>>
L_spam_true ==
    <<"S","p","a","m",":"," ","T","r","u","e"," ",";"," ","8",".","0"," ","/"," ","5",".","0">>
L_spam_no ==
    <<"S","p","a","m",":"," ","N","o"," ",";"," ","-","1",".","5","0"," ","/"," ","5",".","0">>
L_rules ==
    <<" ","1",".","0"," ","R","U","L","E","_","A"," ","S","o","m","e"," "," ","t","e","x","t","\n","-","0",".","5"," ","R","U","L","E","_","B"," ","O","t","h","e","r">>
L_rule_last ==
    <<"2",".","5"," ","R","U","L","E","_","C"," ","L","a","s","t">>
L_symbols ==
    <<"R","U","L","E","_","O","N","E",",","R","U","L","E","_","T","W","O">>
L_content_length ==
    <<"C","o","n","t","e","n","t","-","l","e","n","g","t","h",":"," ","5">>

StatusLines == {St_ok, St_bad, St_garbled}
BodyLines ==
    {L_blank, L_spam_true, L_spam_no, L_rules, L_rule_last, L_symbols, L_content_length}
ParseReplies ==
    { join(CRLF, <<st>> \o body) :
        st \in StatusLines,
        body \in UNION { [1..n -> BodyLines] : n \in 0..MaxLines } }
ParseCmds == {S_CHECK, S_SYMBOLS, S_REPORT, S_PROCESS, S_TELL}

InitParse ==
    /\ user = None
    /\ gzip = FALSE
    /\ max_tries = 0
    /\ wait_tries = DefaultWaitTries
    /\ InitCall

parse_op ==
    /\ pc = "idle"
    /\ \E c \in ParseCmds, raw \in BOOLEAN :
          /\ raw => c = S_SYMBOLS
          /\ perform(c, PyStr(<<"H","i">>), None, raw)
    /\ Called("perform", PyNone, PyNone)

read_reply == read_from(ParseReplies)

NextParse ==
    \/ parse_op
    \/ get_connection
    \/ prepare
    \/ send_request
    \/ send_terminator
    \/ half_close
    \/ read_reply

SpecParse == InitParse /\ [][NextParse]_vars

\* ============================================================ properties
\* readings of the log
LastEv == log[Len(log)]
Ops(op) == {i \in DOMAIN log : log[i].op = op}
ClosedAt(c) == {i \in DOMAIN log : log[i].op = "close" /\ log[i].conn = c}
ReleasedAt(c) == {i \in DOMAIN log : log[i].op = "release" /\ log[i].conn = c}
\* attempts started so far: each one acquired a connection or failed to
Attempts == Cardinality(Ops("acquire") \cup Ops("connect_failed"))
\* the connections acquired and neither closed nor released
Held == {log[i].conn : i \in Ops("acquire")}
           \ {c \in 1..Len(log) : ClosedAt(c) \cup ReleasedAt(c) # {}}
\* the errno values the specification calls recoverable: resource temporarily
\* unavailable, broken pipe, bad descriptor, connection reset
RecoverableErrnos == {11, 32, 9, 104}
Recoverable(e) == e.type = "socket.error" /\ e.errno \in RecoverableErrnos
CallFailedWith(t) == pc = "done" /\ outcome.kind = "raise" /\ outcome.exc.type = t

\* C1: with max attempts = N, once N attempts have each raised a recoverable
\* transport error the call has failed with ClientError, and no attempt beyond
\* the N-th is ever made.
C1_RetryExhaustion ==
    /\ (max_tries >= 1 /\ Attempts >= max_tries /\ Recoverable(exc))
          => CallFailedWith("SpamCError")
    /\ max_tries >= 1 => Attempts <= max_tries

\* C2: after k < max attempts recoverable transport errors, a successful
\* exchange makes perform return the parsed response; and whenever a connection
\* is acquired, every connection acquired by an earlier attempt was closed
\* before, and is never released.
C2_RetryThenSuccess ==
    /\ \A j \in Ops("acquire") :
          \A c \in 1..(log[j].conn - 1) :
              /\ \E i \in ClosedAt(c) : i < j
              /\ ReleasedAt(c) = {}
    /\ (/\ pc = "done"
        /\ tries < max_tries
        /\ log # <<>>
        /\ LastEv.op = "recv"
        /\ RESPONSE_RE_match(split_crlf(LastEv.data, <<>>)[1]).matched)
          => /\ outcome.kind = "return"
             /\ outcome.resp.code = int_str(RESPONSE_RE_match(split_crlf(LastEv.data, <<>>)[1]).code)
             /\ Cardinality(Ops("close")) + Cardinality(Ops("connect_failed")) = tries

C2_Witness ==
    /\ pc = "done"
    /\ outcome.kind = "return"
    /\ tries >= 1
    /\ tries < max_tries
    /\ Cardinality(Ops("close")) = tries

\* C3: when perform has returned a response, the connection of the final
\* attempt has been released to its pool.
C3_ReleasedOnSuccess ==
    (pc = "done" /\ outcome.kind = "return") => ReleasedAt(conn) # {}

\* C4: a timeout caught by perform ends the call at once with TimeoutError, a
\* name-resolution failure with ClientError; the held connection is released
\* and not closed, and nothing (no sleep, no new attempt) follows.
C4_TimeoutAndResolution ==
    exc.type \in {"socket.timeout", "socket.gaierror"} =>
        /\ pc = "done"
        /\ outcome.kind = "raise"
        /\ outcome.exc.type = (IF exc.type = "socket.timeout"
                               THEN "SpamCTimeOutError" ELSE "SpamCError")
        /\ outcome.exc.text = exc.text
        /\ IF conn # 0
           THEN /\ LastEv = Ev("release", conn, <<>>, 0)
                /\ ClosedAt(conn) = {}
                /\ Cardinality(ReleasedAt(conn)) = 1
           ELSE LastEv.op = "connect_failed"
        /\ Cardinality(Ops("sleep")) = tries
        /\ Attempts = tries + 1

C4_Witness ==
    /\ exc.type = "socket.timeout"
    /\ pc = "done"
    /\ conn # 0
    /\ tries >= 1
    /\ tries < max_tries

\* C5: a transport error whose code is not recoverable makes perform close the
\* held connection and fail with ClientError carrying the error text, without
\* sleeping or retrying, whatever budget is left.
C5_NonRecoverable ==
    (exc.type = "socket.error" /\ ~Recoverable(exc)) =>
        /\ CallFailedWith("SpamCError")
        /\ \E k \in 1..Len(outcome.exc.text) :
              SubSeq(outcome.exc.text, k, Len(outcome.exc.text)) = exc.text
        /\ IF conn # 0
           THEN /\ LastEv = Ev("close", conn, <<>>, 0)
                /\ ReleasedAt(conn) = {}
           ELSE LastEv.op = "connect_failed"
        /\ Cardinality(Ops("sleep")) = tries
        /\ Attempts = tries + 1

C5_Witness ==
    /\ exc.type = "socket.error"
    /\ ~Recoverable(exc)
    /\ pc = "done"
    /\ conn # 0
    /\ tries = 0
    /\ max_tries > 0

\* C6: a failure that is not a transport error (the ResponseError of the
\* parser included) makes perform release the held connection and surface
\* that very error, with no retry and no sleep.
C6_OtherFailures ==
    (exc # NoExc /\ ~IsSocketError(exc)) =>
        /\ pc = "done"
        /\ outcome = Raised(exc)
        /\ IF conn # 0
           THEN LastEv = Ev("release", conn, <<>>, 0)
           ELSE LastEv.op = "connect_failed"
        /\ Cardinality(Ops("sleep")) = tries
        /\ Attempts = tries + 1

C6_Witness ==
    /\ exc.type = "SpamCResponseError"
    /\ pc = "done"
    /\ conn # 0
    /\ tries < max_tries

\* C7: at most one acquired connection is neither released nor closed; the
\* connection of an attempt is released or closed before the next attempt
\* acquires one and before an error reaches the caller.
C7_ConnectionLifecycle ==
    /\ Cardinality(Held) <= 1
    /\ \A j \in Ops("acquire") : Held \subseteq {c \in 1..Len(log) : c >= log[j].conn}
    /\ (pc = "done" /\ outcome.kind = "raise") => Held = {}

C7_Witness ==
    /\ pc = "done"
    /\ outcome.kind = "raise"
    /\ Cardinality(Ops("acquire")) >= 2
    /\ Held = {}

\* the dict perform received, as a set of <<key, value>>
ExtraSet == {extra_headers.v[i] : i \in DOMAIN extra_headers.v}
ValidActions == {S_learn, S_forget, S_report, S_revoke}
HamNames == {lower(S_HAM), lower(S_NOTSPAM), lower(S_NOT_SPAM)}
\* the table of section 4.4, for a lower-case action a and learnAs l
TellTable(a, l) ==
    CASE a = S_learn /\ l = S_spam -> {<<S_MessageClass, S_spam>>, <<S_Set, S_local>>}
      [] a = S_learn /\ l \in HamNames -> {<<S_MessageClass, S_ham>>, <<S_Set, S_local>>}
      [] a = S_forget -> {<<S_Remove, S_local>>}
      [] a = S_report -> {<<S_MessageClass, S_spam>>, <<S_Set, S_local_remote>>}
      [] a = S_revoke -> {<<S_MessageClass, S_ham>>, <<S_Remove, S_remote>>}

\* C8 as stated: the extra headers tell passes with TELL are those of the
\* table, revoke giving Message-class: ham and Remove: remote only.
C8_TellHeadersAsStated ==
    (call.op = "tell" /\ cmd = S_TELL) =>
        ExtraSet = TellTable(lower(call.action.s), lower(call.learnas.s))

\* C8 amended: the extra headers tell passes with TELL are those of the
\* table, except that revoke gives Message-class: ham, Set: local and
\* Remove: remote.
C8_TellHeaders ==
    (call.op = "tell" /\ cmd = S_TELL) =>
        /\ extra_headers.some
        /\ Cardinality(ExtraSet) = Len(extra_headers.v)
        /\ ExtraSet =
             IF lower(call.action.s) = S_revoke
             THEN {<<S_MessageClass, S_ham>>, <<S_Set, S_local>>, <<S_Remove, S_remote>>}
             ELSE TellTable(lower(call.action.s), lower(call.learnas.s))

C8_Witness ==
    /\ call.op = "tell"
    /\ cmd = S_TELL
    /\ lower(call.action.s) = S_revoke
    /\ Len(log) > 0
    /\ LastEv.op = "send"

\* C9: tell with an action outside learn, forget, report, revoke (compared
\* without regard to case), or with learn and a learnAs outside spam, ham,
\* notspam, not_spam, fails with ClientError; perform is not entered, no
\* connection is acquired and nothing is sent.
C9_InvalidTellRejected ==
    (/\ call.op = "tell"
     /\ \/ ~IsString(call.action)
        \/ lower(call.action.s) \notin ValidActions
        \/ /\ lower(call.action.s) = S_learn
           /\ lower(call.learnas.s) \notin ({S_spam} \cup HamNames))
      => /\ CallFailedWith("SpamCError")
         /\ log = <<>>
         /\ cmd = <<>>
         /\ conn = 0

C9_Witness ==
    /\ call.op = "tell"
    /\ call.action = PyStr(upper(S_learn))
    /\ call.learnas = PyStr(<<"j","u","n","k">>)
    /\ CallFailedWith("SpamCError")

\* C10: the header block is the command line, one Content-length line, a
\* User line iff a user is configured, Compress: zlib iff compression is on,
\* one line per extra header whose key is not content-length in any case, in
\* this order, and two empty lines; exactly one line is a Content-length.
C10_HeaderBlock ==
    headers # <<>> =>
        LET L == split_crlf(headers, <<>>)
            hasUser == user.some /\ user.v # <<>>
            fixed == 2 + (IF hasUser THEN 1 ELSE 0) + (IF gzip THEN 1 ELSE 0)
            kept == IF extra_headers.some
                    THEN SelectSeq(extra_headers.v,
                                   LAMBDA it : lower(it[1]) # S_content_length)
                    ELSE <<>>
        IN  /\ Len(L) = fixed + Len(kept) + 2
            /\ L[1] = cmd \o <<" ","S","P","A","M","C","/","1",".","5">>
            /\ L[2] = S_ContentLengthPfx \o msg_length
            /\ hasUser => L[3] = S_UserPfx \o user.v
            /\ gzip => L[fixed] = S_CompressZlib
            /\ \A k \in DOMAIN kept : L[fixed + k] = kept[k][1] \o <<":", " ">> \o kept[k][2]
            /\ L[Len(L) - 1] = <<>>
            /\ L[Len(L)] = <<>>
            /\ Cardinality({i \in DOMAIN L :
                              startswith(lower(L[i]), S_content_length \o <<":">>)}) = 1

C10_Witness ==
    /\ headers # <<>>
    /\ user.some
    /\ user.v # <<>>
    /\ gzip
    /\ extra_headers.some
    /\ Len(extra_headers.v) = 2
    /\ \E i \in DOMAIN extra_headers.v :
          /\ lower(extra_headers.v[i][1]) = S_content_length
          /\ extra_headers.v[i][1] # S_content_length

\* the second line of the header block: what the request declares
DeclaredLine == split_crlf(headers, <<>>)[2]
\* the in-memory body went out as a zlib stream
SentCompressed ==
    /\ gzip
    /\ IsString(msg)
    /\ pc = "term"
    /\ log # <<>>
    /\ LastEv.op = "send"
    /\ startswith(msg.s, <<"x78", "x9c">>)

\* C11: when compression is on and a non-empty in-memory body is sent, the
\* Content-length the request declares is the number of body bytes sent after
\* the header block, the compressed count.
C11_DeclaredIsTransmitted ==
    SentCompressed =>
        DeclaredLine = S_ContentLengthPfx \o str_int(Len(LastEv.data) - Len(headers))

Replied == pc = "done" /\ Ops("recv") # {}
\* the lines of the reply that was read
ReplyLines == split_crlf(log[CHOOSE i \in Ops("recv") : TRUE].data, <<>>)
\* the lines after the status line that match the spam-status pattern
SpamLines == {i \in 2..Len(ReplyLines) : SPAM_RE_match(ReplyLines[i]).matched}
\* the non-blank lines after the status line that do not match the spam-status
\* pattern and hold at least one rule-report match
RuleLines ==
    {i \in 2..Len(ReplyLines) :
        /\ ~IsBlank(ReplyLines[i])
        /\ ~SPAM_RE_match(ReplyLines[i]).matched
        /\ RULE_RE_findall(ReplyLines[i]) # <<>>}
Last(S) == CHOOSE i \in S : \A j \in S : j <= i

\* C13: a reply whose first line is not a status line makes the call fail with
\* SpamCResponseError and hands no response to the caller, not even a partly
\* filled one; a reply whose first line is a status line is returned with the
\* code of that line as an integer.
C13_StatusLineAllOrNothing ==
    Replied =>
        LET m == RESPONSE_RE_match(ReplyLines[1])
        IN  IF m.matched
            THEN /\ outcome.kind = "return"
                 /\ outcome.resp.code \in Nat
                 /\ outcome.resp.code = int_str(m.code)
                 /\ cmd # S_PROCESS => outcome.resp.message = m.message
            ELSE /\ outcome.kind = "raise"
                 /\ outcome.exc.type = "SpamCResponseError"
                 /\ outcome.resp = NoResp

C13_Witness ==
    /\ Replied
    /\ ReplyLines[1] = St_garbled
    /\ SpamLines # {}
    /\ outcome.kind = "raise"
    /\ outcome.exc.type = "SpamCResponseError"

\* C14: in a returned response isspam is true exactly when the token of the
\* last spam-status line of the reply is True or Yes, and false when the reply
\* has no such line; score and basescore are the numbers of that same line.
C14_LastSpamStatusWins ==
    (Replied /\ outcome.kind = "return") =>
        IF SpamLines = {}
        THEN /\ outcome.resp.isspam = FALSE
             /\ outcome.resp.score = <<0, 0>>
             /\ outcome.resp.basescore = <<0, 0>>
        ELSE LET m == SPAM_RE_match(ReplyLines[Last(SpamLines)])
             IN  /\ outcome.resp.isspam = (m.isspam \in {S_True, S_Yes})
                 /\ outcome.resp.score = float_str(m.score)
                 /\ outcome.resp.basescore = float_str(m.basescore)

C14_Witness ==
    /\ Replied
    /\ outcome.kind = "return"
    /\ Cardinality(SpamLines) >= 2
    /\ ReplyLines[Last(SpamLines)] = L_spam_no
    /\ \E i \in SpamLines : ReplyLines[i] = L_spam_true
    /\ outcome.resp.isspam = FALSE
    /\ outcome.resp.score = <<0 - 15, 1>>

\* C15: for every command but PROCESS the report of a returned response holds
\* exactly the rule matches of the last non-blank line after the status line
\* that is no spam-status line and has a rule match, and is empty when there is
\* no such line; for PROCESS the report is empty.
C15_LastRuleLineWins ==
    (Replied /\ outcome.kind = "return") =>
        outcome.resp.report =
            IF cmd = S_PROCESS \/ RuleLines = {} THEN <<>>
            ELSE LET rules == RULE_RE_findall(ReplyLines[Last(RuleLines)])
                 IN  [i \in DOMAIN rules |-> report_entry(rules[i])]

\* ------------------------------------------------------------ half-close
\* C16: a transport error of the half-close is passed over: the connection is
\* neither closed nor released by it, no attempt is consumed and no error is
\* set or raised; the next thing the attempt does is read the response from
\* the same connection.
C16_HalfCloseSwallowed ==
    \A i \in Ops("shutdown_failed") :
        /\ i > 1
        /\ log[i - 1] = Ev("send", log[i].conn, CRLF, 0)
        /\ IF i = Len(log)
           THEN /\ pc = "read"
                /\ conn = log[i].conn
                /\ conn \in Held
                /\ exc = NoExc
                /\ outcome = Pending
                /\ tries = Cardinality(Ops("sleep"))
           ELSE /\ log[i + 1].op \in {"recv", "recv_failed"}
                /\ log[i + 1].conn = log[i].conn

C16_Witness ==
    /\ pc = "done"
    /\ outcome.kind = "return"
    /\ \E i \in Ops("shutdown_failed") : log[i + 1].op = "recv"

\* ------------------------------------------------------------ the sleep
\* the attempts, in their order: the positions where one acquired a
\* connection or failed to
AttemptAt == Ops("acquire") \cup Ops("connect_failed")

\* C17: every sleep is made with the configured wait, follows the close of the
\* connection of the attempt that failed (or the failure to acquire one) and
\* is followed by nothing but the next attempt; exactly one sleep lies between
\* two consecutive attempts and none before the first; when the call is over
\* the sleeps are one fewer than the attempts.
C17_SleepOrdering ==
    /\ \A i \in Ops("sleep") :
          /\ log[i].arg = wait_tries
          /\ i > 1
          /\ \/ log[i - 1].op = "connect_failed"
             \/ /\ log[i - 1].op = "close"
                /\ \E a \in Ops("acquire") :
                      /\ a < i
                      /\ log[a].conn = log[i - 1].conn
                      /\ \A b \in AttemptAt : b < i => b <= a
          /\ IF i = Len(log) THEN pc = "connect" /\ outcome = Pending
             ELSE (i + 1) \in AttemptAt
    /\ \A a, b \in AttemptAt :
          (a < b /\ \A k \in AttemptAt : ~(a < k /\ k < b))
              => Cardinality({i \in Ops("sleep") : a < i /\ i < b}) = 1
    /\ \A a \in AttemptAt :
          (\A k \in AttemptAt : a <= k) => \A i \in Ops("sleep") : a < i
    /\ (pc = "done" /\ AttemptAt # {}) =>
          Cardinality(Ops("sleep")) = Cardinality(AttemptAt) - 1

C17_Witness ==
    /\ pc = "done"
    /\ Cardinality(Ops("sleep")) = 2
    /\ Cardinality(AttemptAt) = 3
    /\ \E i \in Ops("sleep") : log[i - 1].op = "close"

\* ------------------------------------------------------------ termination
\* C18: when every transport operation returns or raises, a call of perform
\* comes to its end, a returned response or a raised error; the loop cannot go
\* on forever since every retry adds one to the attempt counter, which never
\* exceeds max_tries.
C18_Termination ==
    /\ (pc # "idle") ~> (pc = "done" /\ outcome.kind \in {"return", "raise"})
    /\ [][pc' = "sleep" => (tries' = tries + 1 /\ tries' <= max_tries)]_vars
    /\ [][pc # "sleep" /\ pc' # "sleep" => tries' = tries \/ pc = "idle"]_vars

C18_Witness ==
    /\ pc = "done"
    /\ outcome.kind = "raise"
    /\ max_tries = MaxBudget
    /\ tries = max_tries
    /\ Cardinality(Ops("sleep")) = tries

\* ------------------------------------------------------------ disposal
\* C19: on every path through perform, the ValueError path for a body that is
\* neither a string nor a stream included, a connection that was acquired is
\* closed or released at most once: never released after it was closed, never
\* closed or released twice.
C19_SingleDisposal ==
    \A c \in {log[i].conn : i \in Ops("acquire")} :
        Cardinality(ClosedAt(c) \cup ReleasedAt(c)) <= 1

\* ------------------------------------------------------------ the request
\* the requests sent so far: what each attempt passed to conn.send with the
\* header block, the final terminator left aside
RequestsSent == {log[i].data : i \in {j \in Ops("send") : log[j].data # CRLF}}

\* C20: within one call with an in-memory body every attempt sends the same
\* header block, with the same declared Content-length, and the same body
\* bytes as the first attempt, with or without compression.
C20_RequestUnchanged ==
    IsString(msg) => Cardinality(RequestsSent) <= 1

====
